---- MODULE Spec2Model ----
(***************************************************************************)
(* Model of the scheduling core of carponoid/email-mcp:                    *)
(*   src/src/services/scheduler.service.ts  (SchedulerService)             *)
(* The working area (SCHEDULED_DIR) and the history area                   *)
(* (SCHEDULED_SENT_DIR) are maps from job id to file content.  Every await *)
(* of schedule, cancel and checkAndSend is a separate step, so that other  *)
(* operations, the clock and a process crash can fall between two steps.   *)
(*                                                                         *)
(*   Spec       calls run one after the other, each to its end; the        *)
(*              Submission and Mirror capabilities may fail.               *)
(*   SpecCrash  as Spec, and the process running checkAndSend may die at   *)
(*              any step, also in the middle of a file write.              *)
(*   SpecRace   as Spec, and a cancel call may run beside a checkAndSend.  *)
(*   SpecOverlap  two invocations of checkAndSend may run beside each      *)
(*              other.                                                     *)
(*   SpecShipped  as Spec, with the SmtpService of this fork, whose        *)
(*              sendEmail always throws.                                   *)
(*   SpecStorage  as Spec, and writes and unlinks may throw.               *)
(*   SpecLive   as Spec, under the fairness the periodic trigger gives.    *)
(*   SpecServer  as Spec, behind the tools registerAllTools registers      *)
(*              (src/src/tools/register.ts).                               *)
(*                                                                         *)
(* Beside it, the two components the Submission and Mirror capabilities    *)
(* rest on:                                                                *)
(*   SpecLimiter  src/src/safety/rate-limiter.ts (RateLimiter)             *)
(*   SpecManager  the Connection Manager's getConnection, whose source is  *)
(*              not among the files at hand; modelled from spec.md 4.1.    *)
(*   SpecPool   the Connection Manager with testConnection and closeAll.   *)
(***************************************************************************)
EXTENDS Integers, Sequences, FiniteSets, TLC

\* ------------------------------------------------------------------ bounds
MaxJobs == 2            \* ids that schedule can hand out
MaxTicks == 3           \* clock ticks of TickMs each
NSweepers == 2          \* processes that may run checkAndSend
MaxJobsOverlap == 1     \* jobs scheduled where two sweeps may overlap
MaxSendsOverlap == 2    \* no sweep starts once a job was submitted so often
maxTokens == 2          \* the capacity the RateLimiter is constructed with
MaxGrains == 6          \* the rate limiter's clock runs to MaxGrains * GrainMs
NCallers == 2           \* tasks that may be inside getConnection
MaxHandles == 2         \* connections the Connection Manager may establish

\* ------------------------------------------------------- program constants
STALE_LOCK_MS == 5 * 60 * 1000
MAX_ATTEMPTS == 3
\* Granularity of the modelled clock, in ms: two ticks reach the stale-lock
\* threshold exactly, three exceed it.
TickMs == STALE_LOCK_MS \div 2

\* rate-limiter.ts line 17.
windowMs == 60000
\* Granularity of the clock of the rate limiter, in ms.
GrainMs == windowMs \div 4

Ids == 1..MaxJobs
Sweepers == 1..NSweepers
Accounts == {"work", "home"}

NoError == "undefined"
MaxError == "Max retry attempts exceeded"
SendError == "submission failed"
ParseError == "Unexpected end of JSON input"
NoEntError == "ENOENT"
IoError == "EIO"

\* ------------------------------------------------------------- file content
\* A file of the working or history area.  exists = FALSE: no such file;
\* parses = FALSE: the content is not JSON (JSON.parse throws).
NoFile ==
  [exists |-> FALSE, parses |-> FALSE, id |-> 0, account |-> "", sendAt |-> 0,
   createdAt |-> 0, status |-> "", attempts |-> 0, lastError |-> NoError,
   draft |-> FALSE, sentAt |-> 0, sentMessageId |-> 0]

CorruptFile == [NoFile EXCEPT !.exists = TRUE]

Readable(f) == f.exists /\ f.parses

\* An instant given as a string: new Date(s).getTime() is NaN or an integer.
InvalidDate == [valid |-> FALSE, ms |-> 0]
DateOf(ms) == [valid |-> TRUE, ms |-> ms]

VARIABLES
  now,          \* Date.now()
  nextId,       \* ids handed out so far are 1..nextId-1 (crypto.randomUUID)
  files,        \* SCHEDULED_DIR: id -> file content
  sentDir,      \* SCHEDULED_SENT_DIR: id -> file content
  drafts,       \* ids whose mirror artifact (IMAP draft) exists
  sendCalls,    \* id -> number of smtpService.sendEmail calls made for it
  delivered,    \* id -> number of those calls that returned
  mirrorCalls,  \* number of imapService.saveDraft calls
  delAttempted, \* ids for which imapService.deleteEmail was called
  sw,           \* sweeper -> state of its checkAndSend invocation
  cn,           \* the cancel call in flight, and the last one's outcome
  sc            \* the schedule call in flight, and the last one's outcome

\* The rate limiter (src/src/safety/rate-limiter.ts).
VARIABLES
  buckets,      \* this.buckets: key -> bucket
  rl,           \* the last rate limiter call at the current instant, its outcome
  seen,         \* key -> instant of its first tryConsume, calls at that instant
  watch         \* an observed interval of windowMs, the tokens granted in it

\* The Connection Manager (connections/manager.ts), as spec.md section 4.1
\* describes it.
VARIABLES
  cache,        \* (account, role) -> the cached handle, or NoHandle
  usable,       \* the handles whose usability predicate holds
  creating,     \* (account, role) -> a creation is in flight
  callers,      \* caller -> its getConnection call
  nextHandle,   \* handles established so far are 1..nextHandle-1
  tests,        \* caller -> its testConnection call
  closing       \* the closeAll call

\* The MCP server and its tools (src/src/tools/register.ts).
VARIABLES
  config,       \* the AppConfig in use: loaded, settings.readOnly
  server        \* the McpServer: the register functions called, the tools

schedulerVars ==
  <<nextId, files, sentDir, drafts, sendCalls, delivered, mirrorCalls,
    delAttempted, sw, cn, sc>>
limiterVars == <<buckets, rl, seen, watch>>
managerVars == <<cache, usable, creating, callers, nextHandle, tests, closing>>
serverVars == <<config, server>>

\* The variables the scheduler leaves alone.
nonScheduler == <<limiterVars, managerVars, serverVars>>

\* The variables the rate limiter leaves alone.
nonLimiter == <<schedulerVars, managerVars, serverVars>>

\* The variables the Connection Manager leaves alone.
nonManager == <<now, schedulerVars, limiterVars, serverVars>>

\* The variables the registration of the tools leaves alone.
nonServer == <<now, schedulerVars, limiterVars, managerVars>>

vars == <<now, schedulerVars, limiterVars, managerVars, serverVars>>

ZeroTally == [i \in Ids |-> 0]

\* result.sent and result.failed are kept per file (the result holds their
\* sums); tried: the files sendEmail was called for; snap: the working area
\* when the sweep started.
IdleSweep ==
  [pc |-> "idle", queue |-> <<>>, now |-> 0, file |-> 0, mem |-> NoFile,
   err |-> NoError, sent |-> ZeroTally, failed |-> ZeroTally, errors |-> <<>>,
   tried |-> {}, snap |-> [i \in Ids |-> NoFile]]

IdleCancel == [pc |-> "idle", id |-> 0, mem |-> NoFile, draftDeleted |-> FALSE, ret |-> "none"]

IdleSchedule == [pc |-> "idle", arg |-> InvalidDate, mem |-> NoFile, ret |-> "none"]

\* A key of this.buckets without an entry, and the entry made for a key on
\* its first tryConsume at instant t (rate-limiter.ts lines 28-31).
NoBucket == [has |-> FALSE, tokens |-> 0, lastRefill |-> 0]
NewBucket(t) == [has |-> TRUE, tokens |-> maxTokens, lastRefill |-> t]

NoCall == [op |-> "none", key |-> "", ok |-> FALSE, n |-> 0]
NotSeen == [first |-> 0, burst |-> 0]
NoWatch == [on |-> FALSE, key |-> "", start |-> 0, grants |-> 0]

\* The (account, role) pairs: the retrieval and the submission endpoint.
Roles == {"imap", "smtp"}
Callers == 1..NCallers
NoHandle == 0
IdleCaller == [pc |-> "idle", key |-> <<"", "">>, ret |-> NoHandle, waited |-> FALSE]
Handles == 1..MaxHandles
IdleTest == [pc |-> "idle", key |-> <<"", "">>, success |-> FALSE]
\* snap: the handles cached when closeAll started; attempts: handle -> release
\* attempts made; failures: the collected failures, reported at the end.
IdleClosing ==
  [pc |-> "idle", snap |-> {}, todo |-> {}, attempts |-> [h \in Handles |-> 0],
   failures |-> {}, raised |-> FALSE]

\* No configuration is loaded yet; a server on which nothing is registered.
NoConfig == [loaded |-> FALSE, readOnly |-> FALSE]
NewServer == [registered |-> FALSE, calls |-> <<>>, tools |-> {}]

Init ==
  /\ config = NoConfig
  /\ server = NewServer
  /\ cache = [k \in Accounts \X Roles |-> NoHandle]
  /\ usable = {}
  /\ creating = [k \in Accounts \X Roles |-> FALSE]
  /\ callers = [c \in Callers |-> IdleCaller]
  /\ nextHandle = 1
  /\ tests = [c \in Callers |-> IdleTest]
  /\ closing = IdleClosing
  /\ buckets = [k \in Accounts |-> NoBucket]
  /\ rl = NoCall
  /\ seen = [k \in Accounts |-> NotSeen]
  /\ watch = NoWatch
  /\ now = 0
  /\ nextId = 1
  /\ files = [i \in Ids |-> NoFile]
  /\ sentDir = [i \in Ids |-> NoFile]
  /\ drafts = {}
  /\ sendCalls = ZeroTally
  /\ delivered = ZeroTally
  /\ mirrorCalls = 0
  /\ delAttempted = {}
  /\ sw = [p \in Sweepers |-> IdleSweep]
  /\ cn = IdleCancel
  /\ sc = IdleSchedule

\* No operation is in flight.
SweepIdle(p) == sw[p].pc \in {"idle", "done"}
Quiet == (\A p \in Sweepers : SweepIdle(p)) /\ cn.pc = "idle" /\ sc.pc = "idle"

\* The outcome of a finished call is kept until the next call starts or the
\* clock ticks.
ForgetSweeps == [p \in Sweepers |-> IF SweepIdle(p) THEN IdleSweep ELSE sw[p]]
ForgetCancel == IF cn.pc = "idle" THEN IdleCancel ELSE cn
ForgetSchedule == IF sc.pc = "idle" THEN IdleSchedule ELSE sc

\* ------------------------------------------------------------------ clock
Tick ==
  /\ now + TickMs <= MaxTicks * TickMs
  /\ now' = now + TickMs
  /\ sw' = ForgetSweeps
  /\ cn' = ForgetCancel
  /\ sc' = ForgetSchedule
  /\ UNCHANGED <<nextId, files, sentDir, drafts, sendCalls, delivered,
                 mirrorCalls, delAttempted>>
  /\ UNCHANGED nonScheduler

\* --------------------------------------------------------------- schedule
\* The comparison with the current instant is < instead of <=.
CheckSendAtLax(d, t) ==
  IF ~d.valid THEN "invalid_date"
  ELSE IF d.ms < t THEN "not_future"
  ELSE "ok"

\* Lines 47-53: the two checks on options.sendAt.
CheckSendAt(d, t) ==
  IF ~d.valid THEN "invalid_date"
  ELSE IF d.ms <= t THEN "not_future"
  ELSE "ok"

\* Lines 55-70: the record built for an accepted call.
NewScheduled(id, account, d, t) ==
  [exists |-> TRUE, parses |-> TRUE, id |-> id, account |-> account,
   sendAt |-> d.ms, createdAt |-> t, status |-> "pending", attempts |-> 0,
   lastError |-> NoError, draft |-> FALSE, sentAt |-> 0, sentMessageId |-> 0]

\* The values of options.sendAt tried at instant t.
SendAtInputs(t) ==
  {InvalidDate} \cup {DateOf(t + k * TickMs) : k \in {0, 1, 2}}

ScheduleStart(account, d) ==
  /\ sc.pc = "idle"
  /\ nextId \in Ids
  /\ LET v == CheckSendAt(d, now) IN
       IF v = "ok"
       THEN /\ sc' = [pc |-> "mirror", arg |-> d,
                      mem |-> NewScheduled(nextId, account, d, now), ret |-> "none"]
            /\ nextId' = nextId + 1
       ELSE /\ sc' = [pc |-> "idle", arg |-> d, mem |-> NoFile, ret |-> v]
            /\ UNCHANGED nextId
  /\ sw' = ForgetSweeps
  /\ cn' = ForgetCancel
  /\ UNCHANGED <<now, files, sentDir, drafts, sendCalls, delivered,
                 mirrorCalls, delAttempted>>
  /\ UNCHANGED nonScheduler

\* Lines 73-85: imapService.saveDraft returns; the draft reference is kept.
ScheduleMirrorOk ==
  /\ sc.pc = "mirror"
  /\ mirrorCalls' = mirrorCalls + 1
  /\ drafts' = drafts \cup {sc.mem.id}
  /\ sc' = [sc EXCEPT !.pc = "write", !.mem.draft = TRUE]
  /\ UNCHANGED <<now, nextId, files, sentDir, sendCalls, delivered,
                 delAttempted, sw, cn>>
  /\ UNCHANGED nonScheduler

\* The error of saveDraft is not caught: schedule throws before it writes.
ScheduleMirrorFailThrows ==
  /\ sc.pc = "mirror"
  /\ mirrorCalls' = mirrorCalls + 1
  /\ sc' = [sc EXCEPT !.pc = "idle", !.ret = "mirror_error"]
  /\ UNCHANGED <<now, nextId, files, sentDir, drafts, sendCalls, delivered,
                 delAttempted, sw, cn>>
  /\ UNCHANGED nonScheduler

\* Lines 83-85: imapService.saveDraft throws; the error is swallowed.
ScheduleMirrorFail ==
  /\ sc.pc = "mirror"
  /\ mirrorCalls' = mirrorCalls + 1
  /\ sc' = [sc EXCEPT !.pc = "write"]
  /\ UNCHANGED <<now, nextId, files, sentDir, drafts, sendCalls, delivered,
                 delAttempted, sw, cn>>
  /\ UNCHANGED nonScheduler

\* Lines 87-88: writeScheduledFile, then return.
ScheduleWrite ==
  /\ sc.pc = "write"
  /\ files' = [files EXCEPT ![sc.mem.id] = sc.mem]
  /\ sc' = [sc EXCEPT !.pc = "idle", !.ret = "ok"]
  /\ UNCHANGED <<now, nextId, sentDir, drafts, sendCalls, delivered,
                 mirrorCalls, delAttempted, sw, cn>>
  /\ UNCHANGED nonScheduler

\* Line 87: fs.writeFile throws (EIO, ENOSPC); schedule rejects, nothing is
\* written.
ScheduleWriteFail ==
  /\ sc.pc = "write"
  /\ sc' = [sc EXCEPT !.pc = "idle", !.ret = "io_error"]
  /\ UNCHANGED <<now, nextId, files, sentDir, drafts, sendCalls, delivered,
                 mirrorCalls, delAttempted, sw, cn>>
  /\ UNCHANGED nonScheduler

\* The schedule_email tool (mailboxes.resource.ts line 101):
\* draft_saved: !!scheduled.draftMessageId.
DraftSaved(scheduled) == scheduled.draft

\* ----------------------------------------------------------------- cancel
\* The status check lets everything but "sending" through.
CancelDecisionLax(f) ==
  IF ~f.exists THEN "not_found"
  ELSE IF ~f.parses THEN "syntax_error"
  ELSE IF f.status = "sending" THEN "invalid_state"
  ELSE IF f.draft THEN "delete_draft"
  ELSE "unlink"

\* Lines 134-139: what cancel does with the file it read.
CancelDecision(f) ==
  IF ~f.exists THEN "not_found"
  ELSE IF ~f.parses THEN "syntax_error"
  ELSE IF f.status # "pending" THEN "invalid_state"
  ELSE IF f.draft THEN "delete_draft"
  ELSE "unlink"

\* Lines 130-139: readFile, JSON.parse and the status check.
CancelStart(id) ==
  /\ cn.pc = "idle"
  /\ LET v == CancelDecision(files[id]) IN
       IF v \in {"delete_draft", "unlink"}
       THEN cn' = [pc |-> v, id |-> id, mem |-> files[id], draftDeleted |-> FALSE,
                   ret |-> "none"]
       ELSE cn' = [IdleCancel EXCEPT !.id = id, !.ret = v]
  /\ sw' = ForgetSweeps
  /\ sc' = ForgetSchedule
  /\ UNCHANGED <<now, nextId, files, sentDir, drafts, sendCalls, delivered,
                 mirrorCalls, delAttempted>>
  /\ UNCHANGED nonScheduler

\* Lines 142-149: imapService.deleteEmail returns.
CancelDeleteDraftOk ==
  /\ cn.pc = "delete_draft"
  /\ drafts' = drafts \ {cn.id}
  /\ delAttempted' = delAttempted \cup {cn.id}
  /\ cn' = [cn EXCEPT !.pc = "unlink", !.draftDeleted = TRUE]
  /\ UNCHANGED <<now, nextId, files, sentDir, sendCalls, delivered,
                 mirrorCalls, sw, sc>>
  /\ UNCHANGED nonScheduler

\* The error of deleteEmail is not caught: cancel throws before fs.unlink.
CancelDeleteDraftFailThrows ==
  /\ cn.pc = "delete_draft"
  /\ delAttempted' = delAttempted \cup {cn.id}
  /\ cn' = [cn EXCEPT !.pc = "idle", !.ret = "mirror_error"]
  /\ UNCHANGED <<now, nextId, files, sentDir, drafts, sendCalls, delivered,
                 mirrorCalls, sw, sc>>
  /\ UNCHANGED nonScheduler

\* Lines 150-152: imapService.deleteEmail throws; the error is swallowed.
CancelDeleteDraftFail ==
  /\ cn.pc = "delete_draft"
  /\ delAttempted' = delAttempted \cup {cn.id}
  /\ cn' = [cn EXCEPT !.pc = "unlink"]
  /\ UNCHANGED <<now, nextId, files, sentDir, drafts, sendCalls, delivered,
                 mirrorCalls, sw, sc>>
  /\ UNCHANGED nonScheduler

\* Lines 155-166: fs.unlink, then return; ENOENT becomes "not found".
CancelUnlink ==
  /\ cn.pc = "unlink"
  /\ IF files[cn.id].exists
     THEN /\ files' = [files EXCEPT ![cn.id] = NoFile]
          /\ cn' = [cn EXCEPT !.pc = "idle", !.ret = "cancelled"]
     ELSE /\ cn' = [cn EXCEPT !.pc = "idle", !.ret = "not_found"]
          /\ UNCHANGED files
  /\ UNCHANGED <<now, nextId, sentDir, drafts, sendCalls, delivered,
                 mirrorCalls, delAttempted, sw, sc>>
  /\ UNCHANGED nonScheduler

\* ------------------------------------------------------------------- list
RECURSIVE MapFiles(_, _)
MapFiles(order, dir) ==
  IF order = <<>> THEN <<>>
  ELSE <<dir[Head(order)]>> \o MapFiles(Tail(order), dir)

\* Lines 303-321: the parsed records of a directory, in readdir's order;
\* files that do not parse are left out.
ReadDir(dir, order) ==
  LET Ok(i) == Readable(dir[i]) IN MapFiles(SelectSeq(order, Ok), dir)

RECURSIVE InsertSorted(_, _)
InsertSorted(e, sorted) ==
  IF sorted = <<>> THEN <<e>>
  ELSE IF e.sendAt < Head(sorted).sendAt THEN <<e>> \o sorted
  ELSE <<Head(sorted)>> \o InsertSorted(e, Tail(sorted))

\* Line 122: Array.prototype.sort by sendAt (a stable sort).
RECURSIVE SortBySendAt(_)
SortBySendAt(es) ==
  IF es = <<>> THEN <<>>
  ELSE InsertSorted(es[Len(es)], SortBySendAt(SubSeq(es, 1, Len(es) - 1)))

NoAccount == "undefined"
NoStatus == "undefined"

\* Lines 96-123: list(options), with readdir listing the working area in
\* the order workOrder and the history area in the order sentOrder.
List(account, optStatus, workOrder, sentOrder) ==
  LET status == IF optStatus = NoStatus THEN "pending" ELSE optStatus
      fromWork == IF status # "sent" THEN ReadDir(files, workOrder) ELSE <<>>
      fromSent == IF status \in {"sent", "all"} THEN ReadDir(sentDir, sentOrder) ELSE <<>>
      emails == fromWork \o fromSent
      OfAccount(e) == e.account = account
      OfStatus(e) == e.status = status
      filtered == IF account # NoAccount THEN SelectSeq(emails, OfAccount) ELSE emails
  IN IF status # "all" THEN SelectSeq(filtered, OfStatus) ELSE SortBySendAt(filtered)

\* ------------------------------------------------------------ checkAndSend
\* Lines 201-206: a "sending" record that has a lastError and whose age since
\* createdAt exceeds STALE_LOCK_MS is put back to "pending" (in memory).
StaleReset(r, t) ==
  IF r.status = "sending" /\ r.lastError # NoError /\ t - r.createdAt > STALE_LOCK_MS
  THEN [r EXCEPT !.status = "pending"]
  ELSE r

\* The due check reads createdAt instead of sendAt.
SweepDecisionByCreatedAt(r, t) ==
  IF r.status = "sending" /\ r.lastError = NoError THEN "skip"
  ELSE IF StaleReset(r, t).status # "pending" THEN "skip"
  ELSE IF r.createdAt > t THEN "skip"
  ELSE IF r.attempts >= MAX_ATTEMPTS THEN "fail_max"
  ELSE "claim"

\* The attempts are not checked before the claim.
SweepDecisionNoMax(r, t) ==
  IF r.status = "sending" /\ r.lastError = NoError THEN "skip"
  ELSE IF StaleReset(r, t).status # "pending" THEN "skip"
  ELSE IF r.sendAt > t THEN "skip"
  ELSE "claim"

\* Lines 201-225: what the sweep does with a record it parsed, at its instant t.
SweepDecision(r, t) ==
  IF r.status = "sending" /\ r.lastError = NoError THEN "skip"
  ELSE IF StaleReset(r, t).status # "pending" THEN "skip"
  ELSE IF r.sendAt > t THEN "skip"
  ELSE IF r.attempts >= MAX_ATTEMPTS THEN "fail_max"
  ELSE "claim"

\* Lines 219-221: the record written when the attempts are used up.
MaxedOut(r) == [r EXCEPT !.status = "failed", !.lastError = MaxError]

\* The claim forgets to count the attempt.
ClaimedNoCount(r) == [r EXCEPT !.status = "sending"]

\* The claim forgets to set the status.
ClaimedNoLock(r) == [r EXCEPT !.attempts = r.attempts + 1]

\* Lines 228-229: the record written as the claim.
Claimed(r) == [r EXCEPT !.status = "sending", !.attempts = r.attempts + 1]

\* The message id of the submission is not kept.
MarkedSentNoMessageId(r, t, messageId) ==
  [r EXCEPT !.status = "sent", !.sentAt = t]

\* Lines 243-245: the record written to the history area.
MarkedSent(r, t, messageId) ==
  [r EXCEPT !.status = "sent", !.sentAt = t, !.sentMessageId = messageId]

\* The handler compares with > instead of >=.
FailureRecordOffByOne(r, msg) ==
  [r EXCEPT !.status = IF r.attempts > MAX_ATTEMPTS THEN "failed" ELSE "pending",
            !.lastError = msg]

\* The handler records the error and leaves the status as the claim set it.
FailureRecordKeepsStatus(r, msg) == [r EXCEPT !.lastError = msg]

\* Lines 273-274: the record the failure handler writes back.
FailureRecord(r, msg) ==
  [r EXCEPT !.status = IF r.attempts >= MAX_ATTEMPTS THEN "failed" ELSE "pending",
            !.lastError = msg]

\* The orders in which fs.readdir may list the files of S.
RECURSIVE Orders(_)
Orders(S) ==
  IF S = {} THEN {<<>>}
  ELSE UNION {{<<x>> \o o : o \in Orders(S \ {x})} : x \in S}

JsonFiles == {i \in Ids : files[i].exists}

\* Lines 179-190: the result object, readdir, the .json filter and Date.now().
SweepStart(p, order) ==
  /\ SweepIdle(p)
  /\ order \in Orders(JsonFiles)
  /\ sw' = [ForgetSweeps EXCEPT ![p] = [IdleSweep EXCEPT !.pc = "loop", !.queue = order,
                                                         !.now = now, !.snap = files]]
  /\ cn' = ForgetCancel
  /\ sc' = ForgetSchedule
  /\ UNCHANGED <<now, nextId, files, sentDir, drafts, sendCalls, delivered,
                 mirrorCalls, delAttempted>>
  /\ UNCHANGED nonScheduler

\* The loop goes on to the next file.
Continue(s) == [s EXCEPT !.pc = "loop", !.mem = NoFile, !.err = NoError]

\* The error leaves the loop: the files not yet visited are dropped.
ThrowAborts(s, msg) == [s EXCEPT !.pc = "catch", !.err = msg, !.queue = <<>>]

\* A throw inside the try block: control goes to the catch at line 265.
Throw(s, msg) == [s EXCEPT !.pc = "catch", !.err = msg]

\* Lines 194-229: take the next file, read and parse it, decide.
SweepRead(p) ==
  /\ sw[p].pc = "loop"
  /\ sw[p].queue # <<>>
  /\ LET id == Head(sw[p].queue)
         f == files[id]
         s == [sw[p] EXCEPT !.queue = Tail(sw[p].queue), !.file = id]
         v == SweepDecision(f, s.now)
     IN sw' = [sw EXCEPT ![p] =
                 IF ~f.exists THEN Throw(s, NoEntError)
                 ELSE IF ~f.parses THEN Throw(s, ParseError)
                 ELSE IF v = "skip" THEN Continue(s)
                 ELSE IF v = "fail_max"
                   THEN [s EXCEPT !.pc = "write_max", !.mem = MaxedOut(StaleReset(f, s.now))]
                 ELSE [s EXCEPT !.pc = "claim", !.mem = Claimed(StaleReset(f, s.now))]]
  /\ UNCHANGED <<now, nextId, files, sentDir, drafts, sendCalls, delivered,
                 mirrorCalls, delAttempted, cn, sc>>
  /\ UNCHANGED nonScheduler

Tally(t, id) == [t EXCEPT ![id] = t[id] + 1]

\* Lines 222-224: persist "failed", count it, continue.
SweepWriteMax(p) ==
  /\ sw[p].pc = "write_max"
  /\ files' = [files EXCEPT ![sw[p].file] = sw[p].mem]
  /\ sw' = [sw EXCEPT ![p] = Continue([sw[p] EXCEPT !.failed = Tally(sw[p].failed, sw[p].file)])]
  /\ UNCHANGED <<now, nextId, sentDir, drafts, sendCalls, delivered,
                 mirrorCalls, delAttempted, cn, sc>>
  /\ UNCHANGED nonScheduler

\* The claim is not persisted before the submission.
SweepClaimNoWrite(p) ==
  /\ sw[p].pc = "claim"
  /\ sw' = [sw EXCEPT ![p].pc = "send"]
  /\ UNCHANGED <<now, nextId, files, sentDir, drafts, sendCalls, delivered,
                 mirrorCalls, delAttempted, cn, sc>>
  /\ UNCHANGED nonScheduler

\* Line 230: persist the claim.
SweepClaim(p) ==
  /\ sw[p].pc = "claim"
  /\ files' = [files EXCEPT ![sw[p].file] = sw[p].mem]
  /\ sw' = [sw EXCEPT ![p].pc = "send"]
  /\ UNCHANGED <<now, nextId, sentDir, drafts, sendCalls, delivered,
                 mirrorCalls, delAttempted, cn, sc>>
  /\ UNCHANGED nonScheduler

\* Lines 233-245: smtpService.sendEmail returns.
SweepSendOk(p) ==
  /\ sw[p].pc = "send"
  /\ LET id == sw[p].file IN
       /\ sendCalls' = Tally(sendCalls, id)
       /\ delivered' = Tally(delivered, id)
       /\ sw' = [sw EXCEPT ![p].pc = "write_sent",
                           ![p].tried = sw[p].tried \cup {id},
                           ![p].mem = MarkedSent(sw[p].mem, now, delivered[id] + 1)]
  /\ UNCHANGED <<now, nextId, files, sentDir, drafts, mirrorCalls,
                 delAttempted, cn, sc>>
  /\ UNCHANGED nonScheduler

\* Line 233: smtpService.sendEmail throws.
SweepSendFail(p) ==
  /\ sw[p].pc = "send"
  /\ sendCalls' = Tally(sendCalls, sw[p].file)
  /\ sw' = [sw EXCEPT ![p] = Throw([sw[p] EXCEPT !.tried = sw[p].tried \cup {sw[p].file}],
                                   SendError)]
  /\ UNCHANGED <<now, nextId, files, sentDir, drafts, delivered, mirrorCalls,
                 delAttempted, cn, sc>>
  /\ UNCHANGED nonScheduler

\* The stub hands the message to the server and returns.
SmtpSendEmailDelivers(p) == SweepSendOk(p)

\* SmtpService.sendEmail as shipped in this fork (smtp.service.ts): the
\* method body is "throw new Error(SECURITY_MSG)".
SmtpSendEmail(p) == SweepSendFail(p)

\* Lines 247-248: write the record into the history area.
SweepWriteSent(p) ==
  /\ sw[p].pc = "write_sent"
  /\ sentDir' = [sentDir EXCEPT ![sw[p].file] = sw[p].mem]
  /\ sw' = [sw EXCEPT ![p].pc = "unlink"]
  /\ UNCHANGED <<now, nextId, files, drafts, sendCalls, delivered,
                 mirrorCalls, delAttempted, cn, sc>>
  /\ UNCHANGED nonScheduler

\* Line 248: fs.writeFile(sentPath) throws; nothing is written.
SweepWriteSentFail(p) ==
  /\ sw[p].pc = "write_sent"
  /\ sw' = [sw EXCEPT ![p] = Throw(sw[p], IoError)]
  /\ UNCHANGED <<now, nextId, files, sentDir, drafts, sendCalls, delivered,
                 mirrorCalls, delAttempted, cn, sc>>
  /\ UNCHANGED nonScheduler

\* Line 264, reached with or without a draft to delete.
CountSent(s) == Continue([s EXCEPT !.sent = Tally(s.sent, s.file)])

\* Lines 249-252: delete the working-area copy (ENOENT throws).
SweepUnlink(p) ==
  /\ sw[p].pc = "unlink"
  /\ IF files[sw[p].file].exists
     THEN /\ files' = [files EXCEPT ![sw[p].file] = NoFile]
          /\ sw' = [sw EXCEPT ![p] = IF sw[p].mem.draft
                                     THEN [sw[p] EXCEPT !.pc = "delete_draft"]
                                     ELSE CountSent(sw[p])]
     ELSE /\ sw' = [sw EXCEPT ![p] = Throw(sw[p], NoEntError)]
          /\ UNCHANGED files
  /\ UNCHANGED <<now, nextId, sentDir, drafts, sendCalls, delivered,
                 mirrorCalls, delAttempted, cn, sc>>
  /\ UNCHANGED nonScheduler

\* Line 249: fs.unlink throws for a file that is there (EIO, EPERM).
SweepUnlinkFail(p) ==
  /\ sw[p].pc = "unlink"
  /\ files[sw[p].file].exists
  /\ sw' = [sw EXCEPT ![p] = Throw(sw[p], IoError)]
  /\ UNCHANGED <<now, nextId, files, sentDir, drafts, sendCalls, delivered,
                 mirrorCalls, delAttempted, cn, sc>>
  /\ UNCHANGED nonScheduler

\* Lines 253-258 and 264: imapService.deleteEmail returns.
SweepDeleteDraftOk(p) ==
  /\ sw[p].pc = "delete_draft"
  /\ drafts' = drafts \ {sw[p].file}
  /\ delAttempted' = delAttempted \cup {sw[p].file}
  /\ sw' = [sw EXCEPT ![p] = CountSent(sw[p])]
  /\ UNCHANGED <<now, nextId, files, sentDir, sendCalls, delivered,
                 mirrorCalls, cn, sc>>
  /\ UNCHANGED nonScheduler

\* Lines 259-264: imapService.deleteEmail throws; the error is swallowed.
SweepDeleteDraftFail(p) ==
  /\ sw[p].pc = "delete_draft"
  /\ delAttempted' = delAttempted \cup {sw[p].file}
  /\ sw' = [sw EXCEPT ![p] = CountSent(sw[p])]
  /\ UNCHANGED <<now, nextId, files, sentDir, drafts, sendCalls, delivered,
                 mirrorCalls, cn, sc>>
  /\ UNCHANGED nonScheduler

\* Line 280, reached whether or not the record could be updated.
CountFailed(s) == Continue([s EXCEPT !.failed = Tally(s.failed, s.file)])

\* Lines 265-274: report the error, read the file again, build the update.
SweepCatchRead(p) ==
  /\ sw[p].pc = "catch"
  /\ LET f == files[sw[p].file]
         s == [sw[p] EXCEPT !.errors = Append(sw[p].errors, <<sw[p].file, sw[p].err>>)]
     IN sw' = [sw EXCEPT ![p] =
                 IF Readable(f)
                 THEN [s EXCEPT !.pc = "catch_write", !.mem = FailureRecord(f, s.err)]
                 ELSE CountFailed(s)]
  /\ UNCHANGED <<now, nextId, files, sentDir, drafts, sendCalls, delivered,
                 mirrorCalls, delAttempted, cn, sc>>
  /\ UNCHANGED nonScheduler

\* Lines 275-280: write the update back.
SweepCatchWrite(p) ==
  /\ sw[p].pc = "catch_write"
  /\ files' = [files EXCEPT ![sw[p].file] = sw[p].mem]
  /\ sw' = [sw EXCEPT ![p] = CountFailed(sw[p])]
  /\ UNCHANGED <<now, nextId, sentDir, drafts, sendCalls, delivered,
                 mirrorCalls, delAttempted, cn, sc>>
  /\ UNCHANGED nonScheduler

\* Line 284: the loop is over, the result is returned.
SweepEnd(p) ==
  /\ sw[p].pc = "loop"
  /\ sw[p].queue = <<>>
  /\ sw' = [sw EXCEPT ![p].pc = "done"]
  /\ UNCHANGED <<now, nextId, files, sentDir, drafts, sendCalls, delivered,
                 mirrorCalls, delAttempted, cn, sc>>
  /\ UNCHANGED nonScheduler

RECURSIVE SumOver(_, _)
SumOver(t, S) ==
  IF S = {} THEN 0
  ELSE LET x == CHOOSE y \in S : TRUE IN t[x] + SumOver(t, S \ {x})

\* result.sent and result.failed of sweeper p.
ResultSent(p) == SumOver(sw[p].sent, Ids)
ResultFailed(p) == SumOver(sw[p].failed, Ids)

\* ------------------------------------------------------------ environment
\* The process running checkAndSend dies between two steps.
Crash(p) ==
  /\ ~SweepIdle(p)
  /\ sw' = [sw EXCEPT ![p] = IdleSweep]
  /\ UNCHANGED <<now, nextId, files, sentDir, drafts, sendCalls, delivered,
                 mirrorCalls, delAttempted, cn, sc>>
  /\ UNCHANGED nonScheduler

\* fs.writeFile truncates the file and then writes: a process that dies in
\* between leaves a file that JSON.parse rejects.
CrashTorn(p) ==
  /\ sw[p].pc \in {"write_max", "claim", "catch_write"}
  /\ files' = [files EXCEPT ![sw[p].file] = CorruptFile]
  /\ sw' = [sw EXCEPT ![p] = IdleSweep]
  /\ UNCHANGED <<now, nextId, sentDir, drafts, sendCalls, delivered,
                 mirrorCalls, delAttempted, cn, sc>>
  /\ UNCHANGED nonScheduler

\* ----------------------------------------------------------- rate limiter
Min(a, b) == IF a < b THEN a ELSE b

\* Line 35: Math.floor((elapsed / this.windowMs) * this.maxTokens).  For the
\* integers that occur here the double arithmetic gives the exact floor.
Refill(elapsed) == (elapsed * maxTokens) \div windowMs

\* The refill timestamp is set on every call, whatever the refill is.
RefilledDrifts(b, t) ==
  [b EXCEPT !.tokens = Min(maxTokens, b.tokens + Refill(t - b.lastRefill)),
            !.lastRefill = t]

\* Lines 34-39: the bucket after the refill step of tryConsume at instant t.
Refilled(b, t) ==
  IF Refill(t - b.lastRefill) > 0
  THEN [b EXCEPT !.tokens = Min(maxTokens, b.tokens + Refill(t - b.lastRefill)),
                 !.lastRefill = t]
  ELSE b

\* The test lets a call through with no token left.
HasTokenOffByOne(b) == b.tokens >= 0

\* Line 41: the test that grants the call.
HasToken(b) == b.tokens > 0

\* remaining forgets the tokens accrued since the last refill.
RemainingStored(b, t) ==
  IF ~b.has THEN maxTokens ELSE Min(maxTokens, b.tokens)

\* Lines 52-60: remaining(accountName) at instant t, b the key's entry.
Remaining(b, t) ==
  IF ~b.has THEN maxTokens
  ELSE Min(maxTokens, b.tokens + Refill(t - b.lastRefill))

\* The first tryConsume of a key and the calls made at that same instant.
Seen(s, has, t) ==
  IF ~has THEN [first |-> t, burst |-> 1]
  ELSE IF s.first = t THEN [s EXCEPT !.burst = Min(s.burst + 1, maxTokens + 1)]
  ELSE s

\* A token granted to key k at instant t counts if the observed interval
\* [start, start + windowMs) is that of k and holds t.
Watched(w, k, t, granted) ==
  IF w.on /\ w.key = k /\ granted /\ t < w.start + windowMs
  THEN [w EXCEPT !.grants = w.grants + 1]
  ELSE w

\* Lines 24-47: tryConsume(accountName).
TryConsume(k) ==
  LET b == Refilled(IF buckets[k].has THEN buckets[k] ELSE NewBucket(now), now)
      granted == HasToken(b)
  IN /\ buckets' = [buckets EXCEPT ![k] = IF granted THEN [b EXCEPT !.tokens = b.tokens - 1]
                                                      ELSE b]
     /\ rl' = [op |-> "tryConsume", key |-> k, ok |-> granted, n |-> 0]
     /\ seen' = [seen EXCEPT ![k] = Seen(seen[k], buckets[k].has, now)]
     /\ watch' = Watched(watch, k, now, granted)
     /\ UNCHANGED <<now, nonLimiter>>

\* remaining makes the bucket of a key it has not seen.
RemainingCallCreates(k) ==
  /\ rl' = [op |-> "remaining", key |-> k, ok |-> FALSE, n |-> Remaining(buckets[k], now)]
  /\ buckets' = [buckets EXCEPT ![k] = IF buckets[k].has THEN buckets[k] ELSE NewBucket(now)]
  /\ UNCHANGED <<now, seen, watch, nonLimiter>>

\* Lines 52-60: a call of remaining(accountName).
RemainingCall(k) ==
  /\ rl' = [op |-> "remaining", key |-> k, ok |-> FALSE, n |-> Remaining(buckets[k], now)]
  /\ UNCHANGED <<now, buckets, seen, watch, nonLimiter>>

\* The values Date.now() may grow by between two calls.
ElapseInputs == {GrainMs, windowMs \div 2, windowMs}

\* Time passes; the outcome of the last call belongs to the past.
Elapse(d) ==
  /\ now + d <= MaxGrains * GrainMs
  /\ now' = now + d
  /\ rl' = NoCall
  /\ UNCHANGED <<buckets, seen, watch, nonLimiter>>

\* From the current instant on, the tokens granted to k are counted for one
\* interval of windowMs.
Watch(k) ==
  /\ ~watch.on
  /\ watch' = [on |-> TRUE, key |-> k, start |-> now, grants |-> 0]
  /\ UNCHANGED <<now, buckets, rl, seen, nonLimiter>>

\* ----------------------------------------------------- connection manager
\* Every caller starts a creation of its own, whether one is in flight or not.
GetConnectionNoCoalescing(c, k) ==
  /\ callers[c].pc \in {"idle", "done"}
  /\ IF cache[k] # NoHandle /\ cache[k] \in usable
     THEN /\ callers' = [callers EXCEPT ![c] = [pc |-> "done", key |-> k, ret |-> cache[k],
                                                waited |-> FALSE]]
          /\ UNCHANGED <<cache, creating>>
     ELSE /\ nextHandle <= MaxHandles
          /\ cache' = [cache EXCEPT ![k] = NoHandle]
          /\ creating' = [creating EXCEPT ![k] = TRUE]
          /\ callers' = [callers EXCEPT ![c] = [pc |-> "connect", key |-> k, ret |-> NoHandle,
                                                waited |-> FALSE]]
  /\ UNCHANGED <<usable, nextHandle, nonManager>>
  /\ UNCHANGED <<tests, closing>>

\* The cached handle is returned without looking at its usability.
GetConnectionNoHealthCheck(c, k) ==
  /\ callers[c].pc \in {"idle", "done"}
  /\ IF cache[k] # NoHandle
     THEN /\ callers' = [callers EXCEPT ![c] = [pc |-> "done", key |-> k, ret |-> cache[k],
                                                waited |-> FALSE]]
          /\ UNCHANGED <<cache, creating>>
     ELSE IF creating[k]
     THEN /\ callers' = [callers EXCEPT ![c] = [pc |-> "wait", key |-> k, ret |-> NoHandle,
                                                waited |-> TRUE]]
          /\ UNCHANGED <<cache, creating>>
     ELSE /\ nextHandle <= MaxHandles
          /\ creating' = [creating EXCEPT ![k] = TRUE]
          /\ callers' = [callers EXCEPT ![c] = [pc |-> "connect", key |-> k, ret |-> NoHandle,
                                                waited |-> FALSE]]
          /\ UNCHANGED cache
  /\ UNCHANGED <<usable, nextHandle, nonManager>>
  /\ UNCHANGED <<tests, closing>>

\* getConnection(account, role): the cached handle if it is usable;
\* otherwise the handle is discarded and the caller waits on the creation in
\* flight for the key, or starts one if there is none.
GetConnection(c, k) ==
  /\ callers[c].pc \in {"idle", "done"}
  /\ IF cache[k] # NoHandle /\ cache[k] \in usable
     THEN /\ callers' = [callers EXCEPT ![c] = [pc |-> "done", key |-> k, ret |-> cache[k],
                                                waited |-> FALSE]]
          /\ UNCHANGED <<cache, creating>>
     ELSE IF creating[k]
     THEN /\ callers' = [callers EXCEPT ![c] = [pc |-> "wait", key |-> k, ret |-> NoHandle,
                                                waited |-> TRUE]]
          /\ cache' = [cache EXCEPT ![k] = NoHandle]
          /\ UNCHANGED creating
     ELSE /\ nextHandle <= MaxHandles
          /\ cache' = [cache EXCEPT ![k] = NoHandle]
          /\ creating' = [creating EXCEPT ![k] = TRUE]
          /\ callers' = [callers EXCEPT ![c] = [pc |-> "connect", key |-> k, ret |-> NoHandle,
                                                waited |-> FALSE]]
  /\ UNCHANGED <<usable, nextHandle, nonManager>>
  /\ UNCHANGED <<tests, closing>>

\* The callers the creation in flight for k serves once it ends with h: the
\* one that started it and those waiting on it.
Served(k, h) ==
  [c \in Callers |->
     IF callers[c].key = k /\ callers[c].pc \in {"connect", "wait"}
     THEN [callers[c] EXCEPT !.pc = "done", !.ret = h]
     ELSE callers[c]]

\* The creation started by c succeeds: the new handle is cached and handed
\* to c and to every caller waiting on the creation.
ConnectOk(c) ==
  /\ callers[c].pc = "connect"
  /\ LET k == callers[c].key IN
       /\ cache' = [cache EXCEPT ![k] = nextHandle]
       /\ creating' = [creating EXCEPT ![k] = FALSE]
       /\ callers' = Served(k, nextHandle)
  /\ usable' = usable \cup {nextHandle}
  /\ nextHandle' = nextHandle + 1
  /\ UNCHANGED nonManager
  /\ UNCHANGED <<tests, closing>>

\* The creation started by c fails: the ConnectionError goes to c and to
\* every caller waiting on the creation; nothing is cached.
ConnectFail(c) ==
  /\ callers[c].pc = "connect"
  /\ creating' = [creating EXCEPT ![callers[c].key] = FALSE]
  /\ callers' = Served(callers[c].key, NoHandle)
  /\ UNCHANGED <<cache, usable, nextHandle, nonManager>>
  /\ UNCHANGED <<tests, closing>>

\* The transport of handle h breaks: its usability predicate turns false.
BecomesUnusable(h) ==
  /\ h \in usable
  /\ usable' = usable \ {h}
  /\ UNCHANGED <<cache, creating, callers, nextHandle, nonManager>>
  /\ UNCHANGED <<tests, closing>>

\* testConnection(account, role) begins its throwaway connect, verify and
\* disconnect cycle (ConnectionManager.testImap, ConnectionManager.testSmtp).
TestConnection(c, k) ==
  /\ tests[c].pc \in {"idle", "done"}
  /\ tests' = [tests EXCEPT ![c] = [pc |-> "probe", key |-> k, success |-> FALSE]]
  /\ UNCHANGED <<cache, usable, creating, callers, nextHandle, closing, nonManager>>

\* The probe goes through the pool: it closes the handle cached for the key
\* when it disconnects.
TestOkClosesCached(c) ==
  /\ tests[c].pc = "probe"
  /\ tests' = [tests EXCEPT ![c].pc = "done", ![c].success = TRUE]
  /\ usable' = usable \ {cache[tests[c].key]}
  /\ cache' = [cache EXCEPT ![tests[c].key] = NoHandle]
  /\ UNCHANGED <<creating, callers, nextHandle, closing, nonManager>>

\* The throwaway connection was made, verified and closed:
\* {success: true, details}.
TestOk(c) ==
  /\ tests[c].pc = "probe"
  /\ tests' = [tests EXCEPT ![c].pc = "done", ![c].success = TRUE]
  /\ UNCHANGED <<cache, usable, creating, callers, nextHandle, closing, nonManager>>

\* The connect or the verification failed: {success: false, error}.
TestFail(c) ==
  /\ tests[c].pc = "probe"
  /\ tests' = [tests EXCEPT ![c].pc = "done", ![c].success = FALSE]
  /\ UNCHANGED <<cache, usable, creating, callers, nextHandle, closing, nonManager>>

CachedHandles == {cache[k] : k \in DOMAIN cache} \ {NoHandle}

\* The cache without handle h.
Uncached(h) == [k \in DOMAIN cache |-> IF cache[k] = h THEN NoHandle ELSE cache[k]]

\* closeAll() begins: the handles cached now are those to release.
CloseAll ==
  /\ closing.pc \in {"idle", "done"}
  /\ closing' = [IdleClosing EXCEPT !.pc = "run", !.snap = CachedHandles,
                                    !.todo = CachedHandles]
  /\ UNCHANGED <<cache, usable, creating, callers, nextHandle, tests, nonManager>>

\* The release of h succeeds: the handle is closed and leaves the cache.
ReleaseOk(h) ==
  /\ closing.pc = "run"
  /\ h \in closing.todo
  /\ closing' = [closing EXCEPT !.todo = closing.todo \ {h},
                                !.attempts[h] = closing.attempts[h] + 1]
  /\ usable' = usable \ {h}
  /\ cache' = Uncached(h)
  /\ UNCHANGED <<creating, callers, nextHandle, tests, nonManager>>

\* The first failure ends closeAll: it is raised, the handles left are not
\* attempted.
ReleaseFailRaises(h) ==
  /\ closing.pc = "run"
  /\ h \in closing.todo
  /\ closing' = [closing EXCEPT !.pc = "done", !.todo = {},
                                !.attempts[h] = closing.attempts[h] + 1,
                                !.failures = closing.failures \cup {h},
                                !.raised = TRUE]
  /\ cache' = Uncached(h)
  /\ UNCHANGED <<usable, creating, callers, nextHandle, tests, nonManager>>

\* The release of h fails: the failure is collected, closeAll goes on.
ReleaseFail(h) ==
  /\ closing.pc = "run"
  /\ h \in closing.todo
  /\ closing' = [closing EXCEPT !.todo = closing.todo \ {h},
                                !.attempts[h] = closing.attempts[h] + 1,
                                !.failures = closing.failures \cup {h}]
  /\ cache' = Uncached(h)
  /\ UNCHANGED <<usable, creating, callers, nextHandle, tests, nonManager>>

\* Every handle was attempted: closeAll returns and reports the failures.
CloseAllEnd ==
  /\ closing.pc = "run"
  /\ closing.todo = {}
  /\ closing' = [closing EXCEPT !.pc = "done"]
  /\ UNCHANGED <<cache, usable, creating, callers, nextHandle, tests, nonManager>>

\* ------------------------------------------------------------ MCP server
\* register.ts lines 59-76: the register functions of the read tools, in the
\* order of their calls.
ReadToolCalls ==
  <<"registerAccountsTools", "registerMailboxesTools", "registerEmailsTools",
    "registerAttachmentTools", "registerContactsTools", "registerThreadTools",
    "registerTemplateReadTools", "registerCalendarTools", "registerAnalyticsTools",
    "registerHealthTools", "registerLocateTools", "registerWatcherTools">>

\* Lines 80 and 83: save_draft, and the send stub.
DraftAndSendCalls == <<"registerDraftTools", "registerSendTools">>

\* Lines 86-93: the non-send write tools.
WriteToolCalls ==
  <<"registerManageTools", "registerLabelTools", "registerBulkTools",
    "registerFolderTools", "registerTemplateWriteTools", "registerSchedulerTools">>

\* The write tools are registered whatever settings.readOnly is.
RegisterCallsUngated(readOnly) == ReadToolCalls \o DraftAndSendCalls \o WriteToolCalls

\* Lines 56-93: the register functions registerAllTools calls, in order.
RegisterCalls(readOnly) ==
  ReadToolCalls \o DraftAndSendCalls \o (IF ~readOnly THEN WriteToolCalls ELSE <<>>)

\* The tools three of the register functions put on the server: the
\* scheduler tools (scheduler.tool.ts), save_draft (drafts.tool.ts) and
\* none for the send stub (send.tool.ts).
SchedulerTools == {"schedule_email", "list_scheduled", "cancel_scheduled"}
DraftTools == {"save_draft"}
SendTools == {}

ToolsOf(call) ==
  IF call = "registerSchedulerTools" THEN SchedulerTools
  ELSE IF call = "registerDraftTools" THEN DraftTools
  ELSE IF call = "registerSendTools" THEN SendTools
  ELSE {}

ToolsOfCalls(calls) == UNION {ToolsOf(calls[n]) : n \in 1..Len(calls)}

\* The configuration is loaded, with settings.readOnly = readOnly.
LoadConfig(readOnly) ==
  /\ ~config.loaded
  /\ config' = [loaded |-> TRUE, readOnly |-> readOnly]
  /\ UNCHANGED <<server, nonServer>>

\* Lines 42-94: registerAllTools(server, ..., config, ...).
RegisterAllTools ==
  /\ config.loaded
  /\ ~server.registered
  /\ server' = [registered |-> TRUE, calls |-> RegisterCalls(config.readOnly),
                tools |-> ToolsOfCalls(RegisterCalls(config.readOnly))]
  /\ UNCHANGED <<config, nonServer>>

\* The server dispatches a call to a tool only if the tool is registered.
ToolCall(name) == server.registered /\ name \in server.tools

\* ---------------------------------------------------------- specifications
ScheduleSteps == ScheduleMirrorOk \/ ScheduleMirrorFail \/ ScheduleWrite
CancelSteps == CancelDeleteDraftOk \/ CancelDeleteDraftFail \/ CancelUnlink

SweepSteps(p) ==
  \/ SweepRead(p)
  \/ SweepClaim(p)
  \/ SweepSendOk(p)
  \/ SweepSendFail(p)
  \/ SweepWriteSent(p)
  \/ SweepUnlink(p)
  \/ SweepDeleteDraftOk(p)
  \/ SweepDeleteDraftFail(p)
  \/ SweepCatchRead(p)
  \/ SweepCatchWrite(p)
  \/ SweepEnd(p)

\* Operations run one after the other and each runs to its end; time passes
\* between them.  Without a crash no pending record has used up its attempts,
\* so line 222 is never reached.
Next ==
  \/ Quiet /\ Tick
  \/ \E d \in SendAtInputs(now) : Quiet /\ ScheduleStart("work", d)
  \/ ScheduleSteps
  \/ \E id \in Ids : Quiet /\ CancelStart(id)
  \/ CancelSteps
  \/ \E order \in Orders(JsonFiles) : Quiet /\ SweepStart(1, order)
  \/ SweepSteps(1)

Spec == Init /\ [][Next]_vars

\* As Spec, with the scheduling the deployment gives: the crontab entry
\* written by the install command starts checkAndSend every minute, so a
\* sweep is started again and again; and every await of a call that is under
\* way returns, so schedule, cancel and checkAndSend go on to their end.
Fairness ==
  /\ WF_vars(\E order \in Orders(JsonFiles) : Quiet /\ SweepStart(1, order))
  /\ WF_vars(SweepSteps(1))
  /\ WF_vars(ScheduleSteps)
  /\ WF_vars(CancelSteps)

SpecLive == Init /\ [][Next]_vars /\ Fairness

\* As Spec, and the sweeping process may die at any step.
NextCrash ==
  \/ Quiet /\ Tick
  \/ \E d \in {InvalidDate, DateOf(now + TickMs)} : Quiet /\ ScheduleStart("work", d)
  \/ ScheduleSteps
  \/ \E id \in Ids : Quiet /\ CancelStart(id)
  \/ CancelSteps
  \/ \E order \in Orders(JsonFiles) : Quiet /\ SweepStart(1, order)
  \/ SweepSteps(1)
  \/ SweepWriteMax(1)
  \/ Crash(1)
  \/ CrashTorn(1)

SpecCrash == Init /\ [][NextCrash]_vars

\* As Spec, but a cancel call and the checkAndSend of one sweeper may run at
\* the same time: each may start while the other is between two of its awaits.
NextRace ==
  \/ Quiet /\ Tick
  \/ \E d \in {InvalidDate, DateOf(now + TickMs)} : Quiet /\ ScheduleStart("work", d)
  \/ ScheduleSteps
  \/ \E id \in Ids : sc.pc = "idle" /\ CancelStart(id)
  \/ CancelSteps
  \/ \E order \in Orders(JsonFiles) : sc.pc = "idle" /\ SweepStart(1, order)
  \/ SweepSteps(1)

SpecRace == Init /\ [][NextRace]_vars

\* As Spec without cancel, but the checkAndSend invocations of the sweepers
\* (two processes started by the external trigger) may run at the same time.
NextOverlap ==
  \/ Quiet /\ Tick
  \/ \E d \in {InvalidDate, DateOf(now + TickMs)} :
       Quiet /\ nextId <= MaxJobsOverlap /\ ScheduleStart("work", d)
  \/ ScheduleSteps
  \/ \E p \in Sweepers : \E order \in Orders(JsonFiles) :
       /\ sc.pc = "idle"
       /\ \A id \in Ids : sendCalls[id] < MaxSendsOverlap
       /\ SweepStart(p, order)
  \/ \E p \in Sweepers : SweepSteps(p)

SpecOverlap == Init /\ [][NextOverlap]_vars

\* As Spec, with the Submission capability that is shipped: sendEmail throws
\* on every call, so the steps after a successful submission are not reached.
NextShipped ==
  \/ Quiet /\ Tick
  \/ \E d \in SendAtInputs(now) : Quiet /\ ScheduleStart("work", d)
  \/ ScheduleSteps
  \/ \E id \in Ids : Quiet /\ CancelStart(id)
  \/ CancelSteps
  \/ \E order \in Orders(JsonFiles) : Quiet /\ SweepStart(1, order)
  \/ SweepRead(1)
  \/ SweepClaim(1)
  \/ SmtpSendEmail(1)
  \/ SweepCatchRead(1)
  \/ SweepCatchWrite(1)
  \/ SweepEnd(1)

SpecShipped == Init /\ [][NextShipped]_vars

\* The server from its start: the configuration is loaded, the tools are
\* registered, then schedule and cancel run when their tools are called;
\* checkAndSend is started from outside the server (the check command).
NextServer ==
  \/ \E readOnly \in BOOLEAN : LoadConfig(readOnly)
  \/ RegisterAllTools
  \/ Quiet /\ Tick
  \/ \E d \in {InvalidDate, DateOf(now + TickMs)} :
       Quiet /\ ToolCall("schedule_email") /\ ScheduleStart("work", d)
  \/ ScheduleSteps
  \/ \E id \in Ids : Quiet /\ ToolCall("cancel_scheduled") /\ CancelStart(id)
  \/ CancelSteps
  \/ \E order \in Orders(JsonFiles) : Quiet /\ SweepStart(1, order)
  \/ SweepSteps(1)

SpecServer == Init /\ [][NextServer]_vars

\* As Spec, and the storage may fail: the record write of schedule, the
\* history write and the unlink of checkAndSend may throw.
NextStorage ==
  \/ Quiet /\ Tick
  \/ \E d \in {InvalidDate, DateOf(now + TickMs)} : Quiet /\ ScheduleStart("work", d)
  \/ ScheduleSteps
  \/ ScheduleWriteFail
  \/ \E id \in Ids : Quiet /\ CancelStart(id)
  \/ CancelSteps
  \/ \E order \in Orders(JsonFiles) : Quiet /\ SweepStart(1, order)
  \/ SweepSteps(1)
  \/ SweepWriteSentFail(1)
  \/ SweepUnlinkFail(1)

SpecStorage == Init /\ [][NextStorage]_vars

\* The rate limiter alone: calls of tryConsume and remaining for the keys,
\* at instants that never decrease.
NextLimiter ==
  \/ \E k \in Accounts : TryConsume(k)
  \/ \E k \in Accounts : RemainingCall(k)
  \/ \E d \in ElapseInputs : Elapse(d)
  \/ \E k \in Accounts : Watch(k)

SpecLimiter == Init /\ [][NextLimiter]_vars

\* The Connection Manager alone: tasks calling getConnection for the two
\* roles of one account, while connections are made, fail and break.
NextManager ==
  \/ \E c \in Callers, role \in Roles : GetConnection(c, <<"work", role>>)
  \/ \E c \in Callers : ConnectOk(c)
  \/ \E c \in Callers : ConnectFail(c)
  \/ \E h \in Handles : BecomesUnusable(h)

SpecManager == Init /\ [][NextManager]_vars

\* The Connection Manager with all its operations: getConnection,
\* testConnection and closeAll for the two roles of one account.
NextPool ==
  \/ \E c \in Callers, role \in Roles : GetConnection(c, <<"work", role>>)
  \/ \E c \in Callers : ConnectOk(c)
  \/ \E c \in Callers : ConnectFail(c)
  \/ \E h \in Handles : BecomesUnusable(h)
  \/ \E c \in Callers, role \in Roles : TestConnection(c, <<"work", role>>)
  \/ \E c \in Callers : TestOk(c)
  \/ \E c \in Callers : TestFail(c)
  \/ CloseAll
  \/ \E h \in Handles : ReleaseOk(h)
  \/ \E h \in Handles : ReleaseFail(h)
  \/ CloseAllEnd

SpecPool == Init /\ [][NextPool]_vars

\* ================================================================= claims
\* The persisted status of a job: that of its history record if it has one,
\* else that of its working-area record, else "none".
JobStatus(id) ==
  IF sentDir[id].exists THEN sentDir[id].status
  ELSE IF files[id].exists THEN files[id].status
  ELSE "none"

JobStatusNext(id) ==
  IF sentDir'[id].exists THEN sentDir'[id].status
  ELSE IF files'[id].exists THEN files'[id].status
  ELSE "none"

\* Creation (none -> pending) and cancellation (pending -> none) apart, these
\* are the changes of status.
LegalChanges ==
  {<<"none", "pending">>, <<"pending", "none">>, <<"pending", "sending">>,
   <<"sending", "sent">>, <<"sending", "pending">>, <<"sending", "failed">>}

C1_Step ==
  \A id \in Ids :
    /\ JobStatus(id) # JobStatusNext(id) => <<JobStatus(id), JobStatusNext(id)>> \in LegalChanges
    /\ JobStatus(id) = "sent" => sentDir'[id] = sentDir[id]
    /\ JobStatus(id) = "failed" => files'[id] = files[id] /\ sentDir'[id] = sentDir[id]

\* C1: over any sequence of schedule, cancel and checkAndSend calls the
\* persisted status of a job changes only pending -> sending, sending -> sent,
\* sending -> pending or sending -> failed (a job is created pending, and a
\* pending job may be cancelled), and a record that is sent or failed is
\* never changed again.
C1_StatusTransitions == [][C1_Step]_vars

\* A job that was retried and sent, beside a job that failed for good.
C1_Witness ==
  \E i, j \in Ids :
    /\ sentDir[i].status = "sent" /\ sentDir[i].attempts = 2
    /\ files[j].status = "failed"

\* A record the sweep of p found "sending" and older than the stale-lock
\* threshold when it started.
StaleAtStart(p, id) ==
  /\ Readable(sw[p].snap[id])
  /\ sw[p].snap[id].status = "sending"
  /\ sw[p].now - sw[p].snap[id].createdAt > STALE_LOCK_MS

\* C2: a completed sweep has put every stale "sending" record back to pending
\* and re-evaluated it, with or without a lastError: the record is no longer
\* the one the sweep found (it was claimed again or marked failed), so none
\* stays "sending" for ever.
C2_StaleLockRecovered ==
  \A id \in Ids :
    sw[1].pc = "done" /\ StaleAtStart(1, id) => files[id] # sw[1].snap[id]

\* A step that starts a cancel call, and one that ends a call that got past
\* its checks.
CancelBegins == cn.pc = "idle" /\ cn'.id # 0 /\ cn' # cn
CancelReturns == cn.pc # "idle" /\ cn'.pc = "idle"
NothingStored == files' = files /\ sentDir' = sentDir /\ drafts' = drafts

C3_Step ==
  /\ CancelBegins /\ Readable(files[cn'.id]) /\ files[cn'.id].status = "pending"
       => cn'.pc \in {"delete_draft", "unlink"}
  /\ CancelReturns => cn'.ret = "cancelled" /\ ~files'[cn.id].exists
  /\ CancelBegins /\ Readable(files[cn'.id]) /\ files[cn'.id].status # "pending"
       => cn'.pc = "idle" /\ cn'.ret = "invalid_state" /\ NothingStored
  /\ CancelBegins /\ ~files[cn'.id].exists
       => cn'.pc = "idle" /\ cn'.ret = "not_found" /\ NothingStored

\* C3: cancel of a pending job goes on to delete the record and returns
\* cancelled = true; cancel of a sending or failed job raises and changes
\* neither area nor the drafts; cancel of a sent or unknown id raises
\* "not found" and changes nothing.
C3_Cancel == [][C3_Step]_vars

\* A cancel was refused for a job that a dead sweep left "sending".
C3_Witness ==
  /\ cn.ret = "invalid_state"
  /\ files[cn.id].status = "sending"
  /\ \E j \in Ids : sentDir[j].status = "sent"

\* The steps of sweeper 1 that write the working-area record of id.
ClaimWrite(id) == sw[1].pc = "claim" /\ sw'[1].pc = "send" /\ sw[1].file = id
MaxWrite(id) == sw[1].pc = "write_max" /\ sw'[1].pc = "loop" /\ sw[1].file = id
HandlerWrite(id) == sw[1].pc = "catch_write" /\ sw'[1].pc = "loop" /\ sw[1].file = id

BecomesFailed(id) ==
  /\ Readable(files[id]) /\ files[id].status # "failed"
  /\ Readable(files'[id]) /\ files'[id].status = "failed"

C4_Step ==
  \A id \in Ids :
    /\ ~files[id].exists /\ files'[id].exists => files'[id].attempts = 0
    /\ Readable(files[id]) /\ Readable(files'[id])
         => \/ files'[id].attempts = files[id].attempts /\ ~ClaimWrite(id)
            \/ files'[id].attempts = files[id].attempts + 1 /\ ClaimWrite(id)
    /\ BecomesFailed(id)
         <=> \/ MaxWrite(id)
             \/ HandlerWrite(id) /\ sw[1].err = SendError
                  /\ files[id].attempts = MAX_ATTEMPTS

\* C4: attempts starts at 0, only the claim step changes it, by exactly 1,
\* it never exceeds MAX_ATTEMPTS, and a job becomes failed exactly when a
\* send attempt fails with attempts = MAX_ATTEMPTS or when a due pending job
\* is found with attempts >= MAX_ATTEMPTS.
C4_Attempts ==
  /\ [](\A id \in Ids : Readable(files[id]) => files[id].attempts \in 0..MAX_ATTEMPTS)
  /\ [][C4_Step]_vars

\* Both ways to fail have happened: one job failed on its third send, the
\* other was found with its attempts used up after a crash.
C4_Witness ==
  \E i, j \in Ids :
    /\ files[i].status = "failed" /\ files[i].lastError = SendError
    /\ files[j].status = "failed" /\ files[j].lastError = MaxError
    /\ files[i].attempts = MAX_ATTEMPTS /\ files[j].attempts = MAX_ATTEMPTS

ScheduleBegins == sc.pc = "idle" /\ sc' # sc /\ sc' # IdleSchedule
ScheduleRejected == ScheduleBegins /\ sc'.pc = "idle"

C5_Step ==
  /\ ScheduleBegins
       => (ScheduleRejected <=> ~sc'.arg.valid \/ sc'.arg.ms <= now)
  /\ ScheduleRejected
       => /\ sc'.ret \in {"invalid_date", "not_future"}
          /\ files' = files /\ mirrorCalls' = mirrorCalls /\ drafts' = drafts
  /\ \A id \in Ids :
       ~files[id].exists /\ files'[id].exists
         => /\ files'[id].status = "pending" /\ files'[id].attempts = 0
            /\ files'[id].sendAt > files'[id].createdAt
            /\ files'[id].createdAt = now

\* C5: schedule rejects exactly the calls whose sendAt is no valid instant or
\* is not strictly after the current instant; a rejected call persists no
\* record and makes no Mirror call (saveDraft is called at most once per
\* accepted call); every record schedule persists is pending with attempts 0.
C5_Schedule ==
  /\ [](mirrorCalls <= nextId - 1)
  /\ [][C5_Step]_vars

\* A call with sendAt equal to the current instant was rejected while a job
\* is stored.
C5_Witness ==
  /\ sc.ret = "not_future" /\ sc.arg.valid /\ sc.arg.ms = now
  /\ \E id \in Ids : files[id].exists

\* The record of a job whose every submission failed, after k attempts.
FailedEveryTime(id, k) ==
  /\ files[id].exists
  /\ sendCalls[id] = k
  /\ delivered[id] = 0

InList(id, l) == \E n \in 1..Len(l) : l[n].id = id

C6_Step ==
  \A id \in Ids :
    files[id].status = "failed" /\ ~SweepIdle(1) => files'[id] = files[id]

\* C6: between sweeps, a job whose submission failed on every attempt is
\* pending with attempts 1 and 2 after its first two attempts and failed,
\* with lastError set, after the third (one attempt per sweep); it is then
\* listed by list(status = failed) and no sweep deletes or changes it.
C6_FailsAfterMaxAttempts ==
  /\ [](\A id \in Ids :
          /\ Cardinality(sw[1].tried \cap {id}) <= 1
          /\ Quiet =>
             /\ \A k \in {1, 2} : FailedEveryTime(id, k)
                  => files[id].status = "pending" /\ files[id].attempts = k
             /\ FailedEveryTime(id, MAX_ATTEMPTS)
                  => /\ files[id].status = "failed"
                     /\ files[id].attempts = MAX_ATTEMPTS
                     /\ files[id].lastError # NoError
                     /\ \A o \in Orders(JsonFiles) :
                          InList(id, List(NoAccount, "failed", o, <<>>))
             /\ sendCalls[id] <= MAX_ATTEMPTS)
  /\ [][C6_Step]_vars

\* A later sweep has run over a job that had failed three times.
C6_Witness ==
  \E id \in Ids :
    /\ sw[1].pc = "done"
    /\ sw[1].snap[id].status = "failed"
    /\ FailedEveryTime(id, MAX_ATTEMPTS)
    /\ files[id].lastError = SendError

\* The sweep of p called sendEmail for id and the call returned.
SentInSweep(p, id) == id \in sw[p].tried /\ delivered[id] > 0

\* C7: at the end of a sweep, a due pending job whose submission succeeded is
\* gone from the working area and is in the history area with status sent,
\* sentAt and sentMessageId set; the deletion of its draft, if it had one, was
\* attempted; it counts 1 toward result.sent and 0 toward result.failed,
\* whether or not the draft deletion worked.
C7_SuccessfulSend ==
  \A id \in Ids :
    sw[1].pc = "done" /\ SentInSweep(1, id)
      => /\ sw[1].snap[id].status = "pending" /\ sw[1].snap[id].sendAt <= sw[1].now
         /\ ~files[id].exists
         /\ Readable(sentDir[id])
         /\ sentDir[id].status = "sent"
         /\ sentDir[id].sentAt >= sw[1].now
         /\ sentDir[id].sentMessageId = delivered[id]
         /\ sentDir[id] = [sw[1].snap[id] EXCEPT
                             !.status = "sent", !.attempts = sw[1].snap[id].attempts + 1,
                             !.sentAt = sentDir[id].sentAt,
                             !.sentMessageId = sentDir[id].sentMessageId]
         /\ sw[1].snap[id].draft => id \in delAttempted
         /\ sw[1].sent[id] = 1 /\ sw[1].failed[id] = 0
         /\ ResultSent(1) >= 1

\* A sweep sent a job whose draft could not be deleted.
C7_Witness ==
  \E id \in Ids :
    /\ sw[1].pc = "done" /\ SentInSweep(1, id)
    /\ id \in drafts /\ id \in delAttempted
    /\ ResultSent(1) = 1 /\ ResultFailed(1) = 1

\* C8: between operations no id is in both areas, the working area holds
\* only pending, sending and failed records, the history area only sent
\* ones, and a job enters the history area at most once.
C8_AreasDisjoint ==
  Quiet =>
    \A id \in Ids :
      /\ ~(files[id].exists /\ sentDir[id].exists)
      /\ Readable(files[id]) => files[id].status \in {"pending", "sending", "failed"}
      /\ sentDir[id].exists => Readable(sentDir[id]) /\ sentDir[id].status = "sent"
      /\ sentDir[id].exists => delivered[id] = 1

PendingDueAtStart(p, id) ==
  /\ Readable(sw[p].snap[id])
  /\ sw[p].snap[id].status = "pending"
  /\ sw[p].snap[id].sendAt <= sw[p].now

Reported(p, id, msg) ==
  \E n \in 1..Len(sw[p].errors) : sw[p].errors[n] = <<id, msg>>

\* C9: a sweep that met an unparseable record or a failing submission still
\* ends, having claimed and submitted every record that was pending and due
\* when it started; the unparseable record and the record whose submission
\* failed are in result.errors, and only those.
C9_FaultIsolation ==
  sw[1].pc = "done" =>
    \A id \in Ids :
      /\ PendingDueAtStart(1, id)
           => id \in sw[1].tried /\ sendCalls[id] = sw[1].snap[id].attempts + 1
      /\ sw[1].snap[id].exists /\ ~sw[1].snap[id].parses
           => Reported(1, id, ParseError) /\ sw[1].failed[id] = 1
      /\ id \in sw[1].tried
           => \/ sw[1].sent[id] = 1 /\ sw[1].failed[id] = 0 /\ ~Reported(1, id, SendError)
              \/ sw[1].sent[id] = 0 /\ sw[1].failed[id] = 1 /\ Reported(1, id, SendError)

\* A sweep met an unparseable record first and a failing submission, and
\* went on.
C9_Witness ==
  /\ sw[1].pc = "done"
  /\ \E bad, other \in Ids :
       /\ sw[1].errors = <<<<bad, ParseError>>, <<other, SendError>>>>
       /\ PendingDueAtStart(1, other)
       /\ other \in sw[1].tried

NotToProcess(r, t) ==
  Readable(r) /\ (r.status = "failed" \/ (r.status = "pending" /\ r.sendAt > t))

\* C10: while a sweep runs and when it has ended, a record that was failed,
\* or pending with sendAt still in the future, when the sweep started is
\* unchanged; sendEmail was not called for it and it adds nothing to
\* result.sent, result.failed or result.errors.
C10_SkipsNotDue ==
  \A id \in Ids :
    sw[1].pc # "idle" /\ NotToProcess(sw[1].snap[id], sw[1].now)
      => /\ files[id] = sw[1].snap[id]
         /\ id \notin sw[1].tried
         /\ sw[1].sent[id] = 0 /\ sw[1].failed[id] = 0
         /\ \A n \in 1..Len(sw[1].errors) : sw[1].errors[n][1] # id
         /\ sw[1].file = id => sw[1].pc \in {"loop", "done"}

\* A sweep has ended that found one job failed and one not yet due.
C10_Witness ==
  /\ sw[1].pc = "done"
  /\ \E i, j \in Ids :
       /\ sw[1].snap[i].status = "failed"
       /\ sw[1].snap[j].status = "pending" /\ sw[1].snap[j].sendAt > sw[1].now

\* ------------------------------------------------------ claims C11 to C20
\* The files fs.readdir finds in the history area.
SentJsonFiles == {i \in Ids : sentDir[i].exists}

ListStatuses == {NoStatus, "pending", "sent", "failed", "all"}

IsSortedBySendAt(l) == \A n \in 1..(Len(l) - 1) : l[n].sendAt <= l[n + 1].sendAt

\* C11: for every account filter (or none), every status filter (or none)
\* and every order in which readdir lists the two areas, the sequence list
\* returns is in non-decreasing order of sendAt.
C11_ListSorted ==
  \A account \in Accounts \cup {NoAccount}, status \in ListStatuses :
    \A workOrder \in Orders(JsonFiles), sentOrder \in Orders(SentJsonFiles) :
      IsSortedBySendAt(List(account, status, workOrder, sentOrder))

\* A schedule call that passed validation has ended.
ScheduleEnded == sc.pc = "idle" /\ sc.mem # NoFile

\* C12: a schedule call that passed validation returns its job whether the
\* Mirror call (saveDraft) returned or threw; the job is then stored in the
\* working area as returned, with status pending; it carries a mirror
\* reference exactly when the Mirror call returned (the artifact exists), and
\* the tool reports draft_saved with that same value.
C12_MirrorBestEffort ==
  /\ sc.pc = "write" => (sc.mem.draft <=> sc.mem.id \in drafts)
  /\ ScheduleEnded
       => /\ sc.ret = "ok"
          /\ files[sc.mem.id] = sc.mem
          /\ sc.mem.status = "pending"
          /\ sc.mem.draft <=> sc.mem.id \in drafts
          /\ DraftSaved(sc.mem) <=> sc.mem.id \in drafts

\* The Mirror call failed for the second of two jobs: the job is stored and
\* returned without a mirror reference, the first job has one.
C12_Witness ==
  /\ ScheduleEnded /\ sc.ret = "ok" /\ mirrorCalls = 2
  /\ sc.mem.id \notin drafts /\ ~DraftSaved(sc.mem)
  /\ files[sc.mem.id].status = "pending"
  /\ \E j \in Ids : j # sc.mem.id /\ files[j].draft /\ j \in drafts

\* A cancel call that found its job pending has ended.
CancelEnded == cn.pc = "idle" /\ cn.mem # NoFile

\* C13: a cancel call that found its job pending returns cancelled = true
\* and has deleted the record, whether the deletion of the mirror artifact
\* returned or threw; deleteEmail is called exactly for a job with a mirror
\* reference, and draftDeleted is true exactly when the job had a mirror
\* reference and the artifact is gone.
C13_CancelMirrorBestEffort ==
  CancelEnded
    => /\ cn.mem.status = "pending"
       /\ cn.ret = "cancelled"
       /\ ~files[cn.id].exists
       /\ cn.mem.draft <=> cn.id \in delAttempted
       /\ cn.draftDeleted <=> (cn.mem.draft /\ cn.id \notin drafts)

\* A job with a mirror reference was cancelled although its artifact could
\* not be deleted.
C13_Witness ==
  /\ CancelEnded /\ cn.ret = "cancelled"
  /\ cn.mem.draft /\ cn.id \in drafts /\ ~cn.draftDeleted
  /\ ~files[cn.id].exists

\* The step in which cancel deletes the record and returns cancelled = true.
CancelDeletes == cn.pc = "unlink" /\ cn'.ret = "cancelled"

\* C14: however a cancel call and one checkAndSend interleave, a job for
\* which cancel has returned cancelled = true was not delivered, is not
\* delivered afterwards and is not in the history area, and the record
\* cancel deletes is never one the sweep has claimed (status sending).
C14_CancelExcludesSend ==
  /\ [](cn.ret = "cancelled" => delivered[cn.id] = 0 /\ ~sentDir[cn.id].exists)
  /\ [][CancelDeletes => files[cn.id].status = "pending"]_vars

\* Sweeper p is inside sendEmail for job id.
Submitting(p, id) == sw[p].pc = "send" /\ sw[p].file = id

\* No other invocation has run since the invocation of p started.
Alone(p) == \A q \in Sweepers \ {p} : sw[q].pc = "idle"

\* C15: while an invocation of checkAndSend that overlaps no other is
\* submitting a job, that send attempt is the only one in flight for the job
\* and the persisted record is its claim: status sending, attempts one more
\* than the invocation found.  (Two overlapping invocations can both read
\* the job as pending and both claim it: C15_Witness.)
C15_PlainReadThenWrite ==
  \A p \in Sweepers, id \in Ids :
    Submitting(p, id) /\ Alone(p)
      => /\ Cardinality({q \in Sweepers : Submitting(q, id)}) = 1
         /\ Readable(files[id])
         /\ files[id].status = "sending"
         /\ files[id].attempts = sw[p].snap[id].attempts + 1

\* Two overlapping invocations have both read the job as pending and both
\* persisted status sending with the same attempts count; both are inside
\* sendEmail for it.
C15_Witness ==
  \E id \in Ids :
    /\ Submitting(1, id) /\ Submitting(2, id)
    /\ sw[1].snap[id].status = "pending" /\ sw[2].snap[id].status = "pending"
    /\ sw[1].mem = sw[2].mem
    /\ files[id] = sw[1].mem
    /\ files[id].status = "sending" /\ files[id].attempts = 1

\* The sendEmail calls made for id: those that returned or threw, and the
\* one sweeper 1 is inside.
Submissions(id) == sendCalls[id] + (IF Submitting(1, id) THEN 1 ELSE 0)

Consumed(k) == rl.op = "tryConsume" /\ rl.key = k

\* C17: of the tryConsume calls made for a key at the instant of its first
\* call, the first maxTokens return true and every later one false; after
\* maxTokens calls at that instant, a call returns false as long as the time
\* elapsed since then is too short for a refill of at least 1.
C17_BurstThenRefuse ==
  \A k \in Accounts :
    /\ Consumed(k) /\ seen[k].first = now
         => (rl.ok <=> seen[k].burst <= maxTokens)
    /\ Consumed(k) /\ seen[k].burst >= maxTokens /\ now > seen[k].first
         /\ Refill(now - seen[k].first) < 1
         => ~rl.ok

\* A key was granted maxTokens calls at one instant and refused the next;
\* some time later, before a token has accrued, it is refused again.
C17_Witness ==
  \E k \in Accounts :
    /\ Consumed(k) /\ ~rl.ok
    /\ seen[k].burst = maxTokens + 1
    /\ now > seen[k].first /\ Refill(now - seen[k].first) < 1
    /\ buckets[k].tokens = 0

\* A step in which only time passes, and floor(f * C) for the time it adds.
TimePasses == now' > now /\ buckets' = buckets
Accrued == Refill(now' - now)

\* C18 as claimed: over any stretch of time without a tryConsume, starting
\* at any instant, remaining(key) grows by exactly floor(f * C), capped at
\* maxTokens, where f * windowMs is the time that passed.
C18_GrowsByFloor ==
  [][TimePasses =>
       \A k \in Accounts :
         Remaining(buckets[k], now') =
           Min(maxTokens, Remaining(buckets[k], now) + Accrued)]_vars

\* C18 as amended: over a stretch of time without a tryConsume that starts
\* at the bucket's refill timestamp (the bucket was created or refilled at
\* that instant), remaining(key) grows by exactly floor(f * C), capped at
\* maxTokens; from any other instant it grows by floor(f * C) or by one
\* more, capped at maxTokens; for a key without a bucket it stays maxTokens.
C18_GrowsFromLastRefill ==
  [][TimePasses =>
       \A k \in Accounts :
         LET before == Remaining(buckets[k], now)
             after == Remaining(buckets[k], now')
         IN /\ after \in {Min(maxTokens, before + Accrued),
                          Min(maxTokens, before + Accrued + 1)}
            /\ ~buckets[k].has \/ buckets[k].lastRefill = now
                 => after = Min(maxTokens, before + Accrued)]_vars

\* A bucket was emptied by maxTokens calls at one instant; windowMs / maxTokens
\* later remaining reports exactly 1.
C18_Witness ==
  \E k \in Accounts :
    /\ rl.op = "remaining" /\ rl.key = k /\ rl.n = 1
    /\ buckets[k].tokens = 0
    /\ buckets[k].lastRefill = seen[k].first
    /\ seen[k].burst >= maxTokens
    /\ (now - seen[k].first) * maxTokens = windowMs

\* C19: in every interval of windowMs, at most maxTokens tryConsume calls
\* for a key return true.
C19_AtMostMaxPerWindow == watch.on => watch.grants <= maxTokens

\* The callers that have started a creation for k, and those waiting on one.
Connecting(k) == {c \in Callers : callers[c].pc = "connect" /\ callers[c].key = k}
Waiting(k) == {c \in Callers : callers[c].pc = "wait" /\ callers[c].key = k}

\* A step in which the creation in flight for k ends.
CreationEnds(k) == creating[k] /\ ~creating'[k]

\* C20: for every (account, role) at most one creation is in flight, started
\* by one caller; callers that find no usable handle meanwhile wait on it and
\* start none; when it ends, one connection at most was established and the
\* caller that started it and all that waited receive the same handle, the
\* one now cached (or all the error).
C20_ConnectOncePerKey ==
  /\ [](\A k \in Accounts \X Roles :
          /\ Cardinality(Connecting(k)) = (IF creating[k] THEN 1 ELSE 0)
          /\ Waiting(k) # {} => creating[k]
          /\ creating[k] => cache[k] = NoHandle
          /\ cache[k] \in 0..(nextHandle - 1))
  /\ [][\A k \in Accounts \X Roles :
          CreationEnds(k)
            => /\ nextHandle' \in {nextHandle, nextHandle + 1}
               /\ \A c \in Connecting(k) \cup Waiting(k) :
                    callers'[c].pc = "done" /\ callers'[c].ret = cache'[k]]_vars

\* Two callers asked for the same key while nothing was cached: one
\* connection was established, the second caller waited, both hold the handle
\* that is cached.
C20_Witness ==
  \E c1, c2 \in Callers :
    /\ c1 # c2
    /\ callers[c1].pc = "done" /\ callers[c2].pc = "done"
    /\ callers[c1].key = callers[c2].key
    /\ ~callers[c1].waited /\ callers[c2].waited
    /\ callers[c1].ret = 1 /\ callers[c2].ret = 1
    /\ cache[callers[c1].key] = 1
    /\ nextHandle = 2

\* ------------------------------------------------------ claims C21 to C30
\* A step of a testConnection call: it begins, or it returns its result.
TestStep == tests' # tests

\* C21: no step of a testConnection call, successful or failing, changes the
\* Connection Manager's cache: the cached handle of every (account, role)
\* keeps its identity and its usability, none is added, none is removed.
C21_TestLeavesCache ==
  [][TestStep => cache' = cache /\ usable' = usable /\ nextHandle' = nextHandle]_vars

\* A successful and a failing test of a key have returned while the key's
\* cached handle is in use and usable.
C21_Witness ==
  \E c1, c2 \in Callers :
    /\ tests[c1].pc = "done" /\ tests[c1].success
    /\ tests[c2].pc = "done" /\ ~tests[c2].success
    /\ tests[c1].key = tests[c2].key
    /\ cache[tests[c1].key] = 1 /\ 1 \in usable
    /\ \E c \in Callers : callers[c].pc = "done" /\ callers[c].ret = 1

\* Caller c enters getConnection for key k, and a call of c returns.
Calls(c, k) ==
  /\ callers[c].pc \in {"idle", "done"}
  /\ callers'[c] # callers[c]
  /\ callers'[c].key = k
Returns(c) == callers'[c] # callers[c] /\ callers'[c].pc = "done"

C22_Step ==
  /\ \A c \in Callers :
       Returns(c) /\ callers'[c].ret # NoHandle => callers'[c].ret \in usable'
  /\ \A c \in Callers, k \in DOMAIN cache :
       Calls(c, k) =>
         IF cache[k] # NoHandle /\ cache[k] \in usable
         THEN /\ callers'[c].pc = "done" /\ callers'[c].ret = cache[k]
              /\ cache' = cache /\ nextHandle' = nextHandle
         ELSE /\ callers'[c].pc \in {"connect", "wait"}
              /\ cache'[k] = NoHandle
  /\ \A k \in DOMAIN cache :
       cache'[k] \notin {cache[k], NoHandle}
         => cache'[k] = nextHandle /\ nextHandle' = nextHandle + 1
  /\ usable' \ usable \subseteq {nextHandle}

\* C22: a handle getConnection returns is usable when it is returned; every
\* call checks the cached handle: one that passes is returned without a new
\* connection, one that fails leaves the cache and the call connects (or
\* waits for the connection being made); a handle put into the cache is a
\* newly established one, and no handle becomes usable again.
C22_HealthCheckedOnReuse == [][C22_Step]_vars

\* A caller holds the second handle of a key whose first handle broke.
C22_Witness ==
  \E c \in Callers :
    /\ callers[c].pc = "done" /\ callers[c].ret = 2
    /\ cache[callers[c].key] = 2
    /\ 2 \in usable /\ 1 \notin usable
    /\ \A k \in DOMAIN cache : cache[k] # 1

\* C23: closeAll attempts the release of every handle that was cached when
\* it began exactly once, whether or not an earlier release failed; it does
\* not raise, and it ends with the failures collected: the handles it
\* reports as failed are among those it attempted, the others are closed.
C23_CloseAllIsolatesFailures ==
  /\ \A h \in Handles : closing.attempts[h] <= 1
  /\ closing.pc = "done" =>
       /\ ~closing.raised
       /\ \A h \in Handles : closing.attempts[h] = (IF h \in closing.snap THEN 1 ELSE 0)
       /\ closing.failures \subseteq closing.snap
       /\ \A h \in closing.snap \ closing.failures : h \notin usable

\* closeAll has ended after two releases, of which the first or the second
\* failed.
C23_Witness ==
  /\ closing.pc = "done"
  /\ closing.snap = {1, 2}
  /\ Cardinality(closing.failures) = 1
  /\ usable \cap closing.snap = closing.failures

Called(call) == \E n \in 1..Len(server.calls) : server.calls[n] = call
CallsOf(seq) == {seq[n] : n \in 1..Len(seq)}

\* C25: once registerAllTools has run, the register functions of the
\* scheduler tools and of the other non-send write tools were called exactly
\* when settings.readOnly is false, and so schedule_email, list_scheduled and
\* cancel_scheduled are on the server exactly then; the register functions of
\* the read tools, of save_draft and the send stub were called for both
\* values of readOnly; save_draft is registered and no tool that sends.
C25_WriteToolsGatedByReadOnly ==
  server.registered =>
    /\ \A call \in CallsOf(WriteToolCalls) : Called(call) <=> ~config.readOnly
    /\ \A call \in CallsOf(ReadToolCalls) \cup CallsOf(DraftAndSendCalls) : Called(call)
    /\ IF config.readOnly THEN server.tools \cap SchedulerTools = {}
                          ELSE SchedulerTools \subseteq server.tools
    /\ "save_draft" \in server.tools
    /\ server.tools \cap {"send_email", "reply_email", "forward_email", "send_draft"} = {}

\* A read-only server is up: the fourteen register functions of the read
\* tools, save_draft and the send stub were called, no scheduler tool exists,
\* and a sweep started from outside has run.
C25_Witness ==
  /\ server.registered /\ config.readOnly
  /\ Len(server.calls) = 14
  /\ server.tools = {"save_draft"}
  /\ sw[1].pc = "done"

\* C26: schedule persists the record before it asks for the mirror: the
\* mirror artifact of a job that no call has tried to delete belongs to a job
\* whose record is stored, also while the record write is still to be made
\* or has failed.
C26_PersistBeforeMirror ==
  \A id \in drafts \ delAttempted : files[id].exists \/ sentDir[id].exists

\* C29: once a sendEmail call for a job has returned, no step calls
\* sendEmail for that job again, also when the history write or the unlink
\* that follows the submission fails.
C29_NoResendAfterSuccess ==
  [][\A id \in Ids : delivered[id] >= 1 => sendCalls'[id] = sendCalls[id]]_vars

\* A step that is a tryConsume call for key k.
TryConsumeStep(k) ==
  now' = now /\ watch'.on = watch.on /\ rl'.op = "tryConsume" /\ rl'.key = k

C27_Step ==
  \A k \in Accounts :
    TryConsumeStep(k) /\ buckets[k].has =>
      LET elapsed == now - buckets[k].lastRefill IN
        /\ elapsed * maxTokens < windowMs
             => buckets'[k].lastRefill = buckets[k].lastRefill
        /\ elapsed * maxTokens >= windowMs
             => /\ buckets'[k].lastRefill = now
                /\ buckets[k].tokens = 0 => rl'.ok

\* C27: a tryConsume call made less than W/C after the refill timestamp (its
\* refill is 0) leaves the timestamp as it is, one made W/C or more after it
\* sets the timestamp to the current instant; so a call on an empty bucket
\* W/C or more after the refill timestamp is granted, whatever calls were
\* refused since.
C27_NoTimestampDrift == [][C27_Step]_vars

\* A key's bucket was emptied and a further call refused at the instant of
\* its creation; the call made W/C or more later (and before a second token
\* was due) was granted the one token refilled.
C27_Witness ==
  \E k \in Accounts :
    /\ rl.op = "tryConsume" /\ rl.key = k /\ rl.ok
    /\ seen[k].burst = maxTokens + 1
    /\ (now - seen[k].first) * maxTokens >= windowMs
    /\ (now - seen[k].first) * maxTokens < 2 * windowMs
    /\ buckets[k].tokens = 0 /\ buckets[k].lastRefill = now

C28_Step ==
  /\ now' = now /\ rl'.op = "remaining"
       => /\ buckets' = buckets
          /\ ~buckets[rl'.key].has => rl'.n = maxTokens
  /\ \A k1, k2 \in Accounts :
       TryConsumeStep(k1) /\ k2 # k1 => buckets'[k2] = buckets[k2]

\* C28: the stored token count of every key stays in 0..capacity; remaining
\* returns a value in 0..capacity and changes no bucket (for a key without a
\* bucket it returns the capacity and makes none); tryConsume of a key
\* leaves the bucket of every other key as it is.
C28_BucketsBoundedAndIndependent ==
  /\ [](/\ \A k \in Accounts : buckets[k].has => buckets[k].tokens \in 0..maxTokens
        /\ rl.op = "remaining" => rl.n \in 0..maxTokens)
  /\ [][C28_Step]_vars

\* remaining was asked for a key without a bucket and returned the capacity,
\* while the bucket of the other key is empty.
C28_Witness ==
  \E k1, k2 \in Accounts :
    /\ rl.op = "remaining" /\ rl.key = k1 /\ rl.n = maxTokens
    /\ ~buckets[k1].has
    /\ buckets[k2].has /\ buckets[k2].tokens = 0

\* Job id is pending and due; job id has left the states pending and sending
\* (it is failed, or its record left the working area: sent or cancelled).
PendingDue(id) ==
  Readable(files[id]) /\ files[id].status = "pending" /\ files[id].sendAt <= now
Settled(id) == ~files[id].exists \/ files[id].status = "failed"

\* The records the sweep of p found pending and due when it started.
DueAtStart(p) ==
  {id \in Ids : /\ Readable(sw[p].snap[id])
                /\ sw[p].snap[id].status = "pending"
                /\ sw[p].snap[id].sendAt <= sw[p].now}

\* What a sweep that has ended did: each record it found pending and due was
\* submitted once and counted once, and is settled or pending with one
\* attempt more, of which at most MAX_ATTEMPTS - 1 are made by then.
SweepExaminedAll ==
  sw[1].pc = "done" =>
    \A id \in Ids :
      /\ sw[1].sent[id] + sw[1].failed[id] = (IF id \in DueAtStart(1) THEN 1 ELSE 0)
      /\ id \in sw[1].tried <=> id \in DueAtStart(1)
      /\ id \in DueAtStart(1) =>
           \/ Settled(id)
           \/ /\ files[id].status = "pending"
              /\ files[id].attempts = sw[1].snap[id].attempts + 1
              /\ files[id].attempts < MAX_ATTEMPTS

\* C30: with checkAndSend started again and again, one invocation at a time,
\* and every submission call returning, every sweep that starts ends, having
\* submitted and counted each record that was pending and due at its start
\* exactly once; each such sweep settles the job or uses up one of its
\* MAX_ATTEMPTS attempts, and every job that is pending and due is in the end
\* sent, failed or cancelled.
C30_DueJobsSettle ==
  /\ \A id \in Ids : PendingDue(id) ~> Settled(id)
  /\ ~SweepIdle(1) ~> sw[1].pc = "done"
  /\ [](SweepExaminedAll)

\* A sweep has ended that found two jobs pending and due: one was sent, the
\* other failed on its last attempt.
C30_Witness ==
  \E i, j \in Ids :
    /\ sw[1].pc = "done"
    /\ DueAtStart(1) = {i, j} /\ i # j
    /\ sentDir[i].status = "sent" /\ ~files[i].exists
    /\ sw[1].snap[j].attempts = MAX_ATTEMPTS - 1
    /\ files[j].status = "failed"

====
